---- MODULE Spec2Model ----
(***************************************************************************)
(* A model of pyseto's v2 key classes (pyseto/versions/v2.py): V2Local     *)
(* (XChaCha20-Poly1305 tokens) and V2Public (Ed25519 tokens), with PAE,    *)
(* base64url, token framing and the PASERK codec.                          *)
(*                                                                         *)
(* Byte strings and text are sequences of integers 0..255 (text as ASCII). *)
(* The cryptographic primitives are ideal: a keyed hash, a MAC tag or a    *)
(* signature is a fresh value for every distinct input, remembered in the  *)
(* table `oracle`, so equal inputs give equal outputs and distinct inputs  *)
(* never collide.                                                          *)
(***************************************************************************)
EXTENDS Integers, Sequences, FiniteSets, TLC

VARIABLES oracle, tok, last, ids

vars == <<oracle, tok, last, ids>>

(***************************************************************************)
(* Program constants.                                                      *)
(***************************************************************************)
KeyLen == 32
NonceLen == 24
TagLen == 16
SigSize == 64
IdDigestLen == 33

(***************************************************************************)
(* Bounds of the model.                                                    *)
(***************************************************************************)
MaxPayloadLen == 2
MaxFooterLen == 1
MaxKeyByte == 1
MaxIds == 3

(***************************************************************************)
(* Text constants (ASCII).                                                 *)
(***************************************************************************)
HeaderLocal == <<118, 50, 46, 108, 111, 99, 97, 108, 46>>          \* "v2.local."
HeaderPublic == <<118, 50, 46, 112, 117, 98, 108, 105, 99, 46>>    \* "v2.public."
TxtK2 == <<107, 50>>                                               \* "k2"
TxtLocal == <<108, 111, 99, 97, 108>>                              \* "local"
TxtPublic == <<112, 117, 98, 108, 105, 99>>                        \* "public"
TxtSecret == <<115, 101, 99, 114, 101, 116>>                       \* "secret"
TxtDot == <<46>>                                                   \* "."
PrefixK2Local == <<107, 50, 46, 108, 111, 99, 97, 108, 46>>        \* "k2.local."
PrefixK2Public == <<107, 50, 46, 112, 117, 98, 108, 105, 99, 46>>  \* "k2.public."
PrefixK2Secret == <<107, 50, 46, 115, 101, 99, 114, 101, 116, 46>> \* "k2.secret."
PrefixLid == <<107, 50, 46, 108, 105, 100, 46>>                    \* "k2.lid."
PrefixPid == <<107, 50, 46, 112, 105, 100, 46>>                    \* "k2.pid."
PrefixSid == <<107, 50, 46, 115, 105, 100, 46>>                    \* "k2.sid."

(***************************************************************************)
(* Results of a call: a returned value or a raised exception.              *)
(***************************************************************************)
Ok(v) == [ok |-> TRUE, val |-> v, err |-> "", msg |-> ""]
Raise(e, m) == [ok |-> FALSE, val |-> <<>>, err |-> e, msg |-> m]

(***************************************************************************)
(* Python slicing s[a:b] for 0-based a, b >= 0 (clamped to the length).    *)
(***************************************************************************)
Min(a, b) == IF a < b THEN a ELSE b
Max(a, b) == IF a > b THEN a ELSE b
Slice(s, a, b) == SubSeq(s, Min(a, Len(s)) + 1, Min(b, Len(s)))
\* s[-n:] for n > 0
Tail_n(s, n) == SubSeq(s, Max(Len(s) - n, 0) + 1, Len(s))
\* s[a:b] where b may be negative (counted from the end, clamped at 0)
SliceNeg(s, a, b) == Slice(s, a, IF b < 0 THEN Max(Len(s) + b, 0) ELSE b)

(***************************************************************************)
(* PAE: 8-byte little-endian count, then per piece an 8-byte little-endian *)
(* length and the piece.                                                   *)
(***************************************************************************)
LE64(n) == << n % 256, (n \div 256) % 256, (n \div 65536) % 256,
              (n \div 16777216) % 256, 0, 0, 0, 0 >>

RECURSIVE PaePieces(_)
PaePieces(pieces) ==
    IF pieces = <<>> THEN <<>>
    ELSE LE64(Len(Head(pieces))) \o Head(pieces) \o PaePieces(Tail(pieces))

pae(pieces) == LE64(Len(pieces)) \o PaePieces(pieces)

(***************************************************************************)
(* base64url without padding.                                              *)
(***************************************************************************)
B64Char(v) ==
    IF v < 26 THEN 65 + v
    ELSE IF v < 52 THEN 97 + (v - 26)
    ELSE IF v < 62 THEN 48 + (v - 52)
    ELSE IF v = 62 THEN 45 ELSE 95

\* the 6-bit value of a character, -1 for a character outside the alphabet
B64Val(c) ==
    IF c >= 65 /\ c <= 90 THEN c - 65
    ELSE IF c >= 97 /\ c <= 122 THEN c - 97 + 26
    ELSE IF c >= 48 /\ c <= 57 THEN c - 48 + 52
    ELSE IF c = 45 THEN 62
    ELSE IF c = 95 THEN 63 ELSE -1

Pow2(n) == CASE n = 0 -> 1 [] n = 1 -> 2 [] n = 2 -> 4 [] n = 3 -> 8
             [] n = 4 -> 16 [] n = 5 -> 32 [] n = 6 -> 64 [] n = 7 -> 128
             [] n = 8 -> 256 [] n = 9 -> 512 [] n = 10 -> 1024

At0(s, i) == IF i + 1 <= Len(s) THEN s[i + 1] ELSE 0

\* urlsafe_b64encode(v) with the "=" padding removed
base64url_encode(bs) ==
    LET nchars == (Len(bs) * 8 + 5) \div 6
        Sextet(j) ==
            LET q == (6 * j) \div 8
                r == (6 * j) % 8
                w == At0(bs, q) * 256 + At0(bs, q + 1)
            IN  (w \div Pow2(10 - r)) % 64
    IN  [j \in 1..nchars |-> B64Char(Sextet(j - 1))]

\* pad to a multiple of four with "=", then urlsafe_b64decode (characters
\* outside the alphabet are skipped; a dangling group is an error)
base64url_decode(cs) ==
    LET IsData(c) == B64Val(c) >= 0
        data == SelectSeq(cs, IsData)
        vals == [i \in 1..Len(data) |-> B64Val(data[i])]
        pads == (4 - (Len(cs) % 4)) % 4
        rest == Len(vals) % 4
        nbytes == (Len(vals) * 6) \div 8
        Byte(k) ==
            LET q == (8 * k) \div 6
                r == (8 * k) % 6
                w == At0(vals, q) * 64 + At0(vals, q + 1)
            IN  (w \div Pow2(4 - r)) % 256
    IN  IF rest = 1 \/ (rest = 2 /\ pads < 2) \/ (rest = 3 /\ pads < 1)
        THEN Raise("ValueError", "Incorrect padding")
        ELSE Ok([k \in 1..nbytes |-> Byte(k - 1)])

(***************************************************************************)
(* str.split("."): the segments between the dots.                          *)
(***************************************************************************)
Split(s) ==
    LET dots == {i \in 1..Len(s) : s[i] = TxtDot[1]}
        n == Cardinality(dots) + 1
        \* the position of the k-th dot; 0 before the first, Len(s) + 1 after the last
        DotPos(k) ==
            IF k = 0 THEN 0
            ELSE IF k = n THEN Len(s) + 1
            ELSE CHOOSE i \in dots : Cardinality({j \in dots : j < i}) = k - 1
    IN  [k \in 1..n |-> SubSeq(s, DotPos(k - 1) + 1, DotPos(k) - 1)]

(***************************************************************************)
(* The ideal primitives.  `o` is the table of inputs seen so far; the      *)
(* output for an input is determined by its position in the table, so it   *)
(* is the same on every later call and differs from every other output.    *)
(***************************************************************************)
OracleIndex(o, e) ==
    IF \E i \in 1..Len(o) : o[i] = e
    THEN CHOOSE i \in 1..Len(o) : o[i] = e
    ELSE 0

DomCode(dom) ==
    CASE dom = "blake2b_keyed" -> 1
      [] dom = "poly1305" -> 2
      [] dom = "ed25519" -> 3
      [] dom = "blake2b" -> 4

OracleOut(dom, idx, n) ==
    [j \in 1..n |-> IF j = 1 THEN DomCode(dom)
                    ELSE IF j = 2 THEN idx % 256
                    ELSE (idx * 31 + j * 7 + DomCode(dom)) % 256]

\* the table after a query for <<dom, x>>
OracleAdd(o, dom, x) ==
    IF OracleIndex(o, <<dom, x>>) = 0 THEN Append(o, <<dom, x>>) ELSE o

\* the n-byte output of the primitive `dom` on input x
OracleGet(o, dom, x, n) == OracleOut(dom, OracleIndex(OracleAdd(o, dom, x), <<dom, x>>), n)

\* TRUE iff `out` is the n-byte output the primitive `dom` has produced for x
OracleHas(o, dom, x, out, n) ==
    /\ OracleIndex(o, <<dom, x>>) # 0
    /\ OracleOut(dom, OracleIndex(o, <<dom, x>>), n) = out

RECURSIVE XorBits(_, _, _)
XorBits(a, b, n) ==
    IF n = 0 THEN 0
    ELSE (((a % 2) + (b % 2)) % 2) + 2 * XorBits(a \div 2, b \div 2, n - 1)

\* the stream cipher: data XOR a keystream fixed by (key, nonce)
KeyStream(key, nonce, i) ==
    (key[((i - 1) % Len(key)) + 1] * 3 + nonce[((i - 1) % Len(nonce)) + 1] * 5
       + i * 7 + 11) % 256

StreamXor(key, nonce, data) ==
    [i \in 1..Len(data) |-> XorBits(data[i], KeyStream(key, nonce, i), 8)]

\* ChaCha20_Poly1305.new(key, nonce) accepts nonces of 8, 12 or 24 bytes
AeadNonceOk(nonce) == Len(nonce) \in {8, 12, NonceLen}

\* cipher.update(aad); cipher.encrypt_and_digest(pt)
AeadSeal(o, key, nonce, aad, pt) ==
    LET c == StreamXor(key, nonce, pt)
    IN  [o |-> OracleAdd(o, "poly1305", <<key, nonce, aad, c>>),
         c |-> c,
         tag |-> OracleGet(o, "poly1305", <<key, nonce, aad, c>>, TagLen)]

\* cipher.update(aad); cipher.decrypt_and_verify(c, tag)
AeadOpen(o, key, nonce, aad, c, tag) ==
    IF AeadNonceOk(nonce) /\ OracleHas(o, "poly1305", <<key, nonce, aad, c>>, tag, TagLen)
    THEN Ok(StreamXor(key, nonce, c))
    ELSE Raise("ValueError", "MAC check failed")

\* key material: raw bytes of a local key, or an Ed25519 key object
Bytes(raw) == [type |-> "bytes", raw |-> raw]
Ed25519PublicKey(raw) == [type |-> "Ed25519PublicKey", raw |-> raw]
Ed25519PrivateKey(raw) == [type |-> "Ed25519PrivateKey", raw |-> raw]

\* the public bytes of a private key: a fixed injective function of the seed
PublicBytesOf(sk) == [i \in 1..Len(sk) |-> (sk[i] * 5 + 3) % 256]

\* Ed25519PrivateKey.public_key()
public_key(k) == Ed25519PublicKey(PublicBytesOf(k.raw))

from_public_bytes(data) ==
    IF Len(data) # KeyLen
    THEN Raise("ValueError", "An Ed25519 public key is 32 bytes long")
    ELSE Ok(Ed25519PublicKey(data))

from_private_bytes(data) ==
    IF Len(data) # KeyLen
    THEN Raise("ValueError", "An Ed25519 private key is 32 bytes long")
    ELSE Ok(Ed25519PrivateKey(data))

\* Ed25519PublicKey.verify(sig, m): sig is the signature some private key
\* with this public key has produced for m
Ed25519Verify(o, pk, sig, m) ==
    \E i \in 1..Len(o) :
        /\ o[i][1] = "ed25519"
        /\ PublicBytesOf(o[i][2][1]) = pk.raw
        /\ o[i][2][2] = m
        /\ OracleOut("ed25519", i, SigSize) = sig

(***************************************************************************)
(* V2Local                                                                 *)
(***************************************************************************)
\* the parent constructor refuses an empty key ("key must be specified.")
V2Local_init(key) ==
    IF key = <<>> THEN Raise("ValueError", "key must be specified.")
    ELSE IF Len(key) # KeyLen THEN Raise("ValueError", "key must be 32 bytes long.")
    ELSE Ok([cls |-> "V2Local", key |-> Bytes(key)])

V2Local_from_paserk(paserk) ==
    LET frags == Split(paserk)
    IN  IF frags[1] # TxtK2
        THEN Raise("ValueError", "Invalid PASERK version for a v2.local key.")
        ELSE IF Len(frags) < 2 THEN Raise("IndexError", "list index out of range")
        ELSE IF frags[2] # TxtLocal
        THEN Raise("ValueError", "Invalid PASERK type for a v2.local key.")
        ELSE IF Len(frags) < 3 THEN Raise("IndexError", "list index out of range")
        ELSE LET d == base64url_decode(frags[3])
             IN  IF ~d.ok THEN d ELSE V2Local_init(d.val)

\* _generate_nonce rejecting only a nonce that is too long
V2Local_generate_nonce_TooLongOnly(o, key, msg, rnd) ==
    IF key # <<>> /\ Len(key) > NonceLen
    THEN [o |-> o, r |-> Raise("ValueError", "nonce must be 24 bytes long.")]
    ELSE LET k == IF key # <<>> THEN key ELSE rnd
         IN  [o |-> OracleAdd(o, "blake2b_keyed", <<k, msg>>),
              r |-> Ok(OracleGet(o, "blake2b_keyed", <<k, msg>>, NonceLen))]

V2Local_generate_nonce(o, key, msg, rnd) ==
    IF key # <<>> /\ Len(key) # NonceLen
    THEN [o |-> o, r |-> Raise("ValueError", "nonce must be 24 bytes long.")]
    ELSE LET k == IF key # <<>> THEN key ELSE rnd
         IN  [o |-> OracleAdd(o, "blake2b_keyed", <<k, msg>>),
              r |-> Ok(OracleGet(o, "blake2b_keyed", <<k, msg>>, NonceLen))]

\* encrypt leaving the footer out of the authenticated data
V2Local_encrypt_NoFooterInPae(o, self, payload, footer, nonce, rnd) ==
    LET g == V2Local_generate_nonce(o, nonce, payload, rnd)
    IN  IF ~g.r.ok THEN g
        ELSE LET n == g.r.val
                 pre_auth == pae(<<HeaderLocal, n>>)
                 s == AeadSeal(g.o, self.key.raw, n, pre_auth, payload)
                 token == HeaderLocal \o base64url_encode(n \o s.c \o s.tag)
             IN  [o |-> s.o,
                  r |-> Ok(IF footer # <<>>
                           THEN token \o TxtDot \o base64url_encode(footer)
                           ELSE token)]

V2Local_encrypt(o, self, payload, footer, nonce, rnd) ==
    LET g == V2Local_generate_nonce(o, nonce, payload, rnd)
    IN  IF ~g.r.ok THEN g
        ELSE LET n == g.r.val
                 pre_auth == pae(<<HeaderLocal, n, footer>>)
                 s == AeadSeal(g.o, self.key.raw, n, pre_auth, payload)
                 token == HeaderLocal \o base64url_encode(n \o s.c \o s.tag)
             IN  [o |-> s.o,
                  r |-> Ok(IF footer # <<>>
                           THEN token \o TxtDot \o base64url_encode(footer)
                           ELSE token)]

\* decrypt raising the encryption error
V2Local_decrypt_WrongError(o, self, payload, footer) ==
    LET n == Slice(payload, 0, NonceLen)
        c == SliceNeg(payload, NonceLen, Len(payload) - TagLen)
        tag == Tail_n(payload, TagLen)
        pre_auth == pae(<<HeaderLocal, n, footer>>)
        p == AeadOpen(o, self.key.raw, n, pre_auth, c, tag)
    IN  IF p.ok THEN p ELSE Raise("EncryptError", "Failed to encrypt.")

\* decrypt calling cipher.decrypt(c), which does not check the tag
V2Local_decrypt_NoTagCheck(o, self, payload, footer) ==
    LET n == Slice(payload, 0, NonceLen)
        c == SliceNeg(payload, NonceLen, Len(payload) - TagLen)
    IN  IF AeadNonceOk(n) THEN Ok(StreamXor(self.key.raw, n, c))
        ELSE Raise("DecryptError", "Failed to decrypt.")

V2Local_decrypt(o, self, payload, footer) ==
    LET n == Slice(payload, 0, NonceLen)
        c == SliceNeg(payload, NonceLen, Len(payload) - TagLen)
        tag == Tail_n(payload, TagLen)
        pre_auth == pae(<<HeaderLocal, n, footer>>)
        p == AeadOpen(o, self.key.raw, n, pre_auth, c, tag)
    IN  IF p.ok THEN p ELSE Raise("DecryptError", "Failed to decrypt.")

\* LocalKey.to_paserk
V2Local_to_paserk(self) == PrefixK2Local \o base64url_encode(self.key.raw)

V2Local_to_paserk_id(o, self) ==
    LET h == PrefixLid
        p == V2Local_to_paserk(self)
    IN  [o |-> OracleAdd(o, "blake2b", <<h \o p>>),
         r |-> Ok(h \o base64url_encode(OracleGet(o, "blake2b", <<h \o p>>, IdDigestLen)))]

(***************************************************************************)
(* V2Public                                                                *)
(***************************************************************************)
V2Public_init(key) ==
    IF key.type \notin {"Ed25519PublicKey", "Ed25519PrivateKey"}
    THEN Raise("ValueError", "The key is not Ed25519 key.")
    ELSE Ok([cls |-> "V2Public", key |-> key])

V2Public_from_paserk(paserk) ==
    LET frags == Split(paserk)
    IN  IF frags[1] # TxtK2
        THEN Raise("ValueError", "Invalid PASERK version for a v2.public key.")
        ELSE IF Len(frags) < 2 THEN Raise("IndexError", "list index out of range")
        ELSE IF frags[2] \notin {TxtPublic, TxtSecret}
        THEN Raise("ValueError", "Invalid PASERK type for a v2.public key.")
        ELSE IF Len(frags) < 3 THEN Raise("IndexError", "list index out of range")
        ELSE LET d == base64url_decode(frags[3])
                 k == IF frags[2] = TxtPublic THEN from_public_bytes(d.val)
                      ELSE from_private_bytes(d.val)
             IN  IF ~d.ok THEN d
                 ELSE IF ~k.ok THEN k
                 ELSE V2Public_init(k.val)

\* sign leaving the footer out of the signed message
V2Public_sign_NoFooterInPae(o, self, payload, footer) ==
    IF self.key.type = "Ed25519PublicKey"
    THEN [o |-> o, r |-> Raise("ValueError", "A public key cannot be used for signing.")]
    ELSE LET m2 == pae(<<HeaderPublic, payload>>)
         IN  [o |-> OracleAdd(o, "ed25519", <<self.key.raw, m2>>),
              r |-> Ok(OracleGet(o, "ed25519", <<self.key.raw, m2>>, SigSize))]

\* sign binding the local header
V2Public_sign_LocalHeader(o, self, payload, footer) ==
    IF self.key.type = "Ed25519PublicKey"
    THEN [o |-> o, r |-> Raise("ValueError", "A public key cannot be used for signing.")]
    ELSE LET m2 == pae(<<HeaderLocal, payload, footer>>)
         IN  [o |-> OracleAdd(o, "ed25519", <<self.key.raw, m2>>),
              r |-> Ok(OracleGet(o, "ed25519", <<self.key.raw, m2>>, SigSize))]

V2Public_sign(o, self, payload, footer) ==
    IF self.key.type = "Ed25519PublicKey"
    THEN [o |-> o, r |-> Raise("ValueError", "A public key cannot be used for signing.")]
    ELSE LET m2 == pae(<<HeaderPublic, payload, footer>>)
         IN  [o |-> OracleAdd(o, "ed25519", <<self.key.raw, m2>>),
              r |-> Ok(OracleGet(o, "ed25519", <<self.key.raw, m2>>, SigSize))]

\* verify swallowing the failure of k.verify
V2Public_verify_Swallow(o, self, payload, footer) ==
    IF Len(payload) <= SigSize THEN Raise("ValueError", "Invalid payload.")
    ELSE Ok(Slice(payload, 0, Len(payload) - SigSize))

V2Public_verify(o, self, payload, footer) ==
    IF Len(payload) <= SigSize THEN Raise("ValueError", "Invalid payload.")
    ELSE LET sig == Tail_n(payload, SigSize)
             m == Slice(payload, 0, Len(payload) - SigSize)
             k == IF self.key.type = "Ed25519PublicKey" THEN self.key
                  ELSE public_key(self.key)
             m2 == pae(<<HeaderPublic, m, footer>>)
         IN  IF Ed25519Verify(o, k, sig, m2) THEN Ok(m)
             ELSE Raise("VerifyError", "Failed to verify.")

\* to_paserk without the branch on the key type
V2Public_to_paserk_AlwaysPublic(self) ==
    PrefixK2Public \o base64url_encode(self.key.raw)

V2Public_to_paserk(self) ==
    IF self.key.type = "Ed25519PublicKey"
    THEN PrefixK2Public \o base64url_encode(self.key.raw)
    ELSE PrefixK2Secret \o base64url_encode(self.key.raw)

\* to_paserk_id without the branch on the key type
V2Public_to_paserk_id_AlwaysPid(o, self) ==
    LET p == V2Public_to_paserk(self)
        h == PrefixPid
    IN  [o |-> OracleAdd(o, "blake2b", <<h \o p>>),
         r |-> Ok(h \o base64url_encode(OracleGet(o, "blake2b", <<h \o p>>, IdDigestLen)))]

V2Public_to_paserk_id(o, self) ==
    LET p == V2Public_to_paserk(self)
        h == IF self.key.type = "Ed25519PublicKey" THEN PrefixPid ELSE PrefixSid
    IN  [o |-> OracleAdd(o, "blake2b", <<h \o p>>),
         r |-> Ok(h \o base64url_encode(OracleGet(o, "blake2b", <<h \o p>>, IdDigestLen)))]

(***************************************************************************)
(* Token framing, as the top-level encode and decode do it.                *)
(***************************************************************************)
\* encode for a public key: header + base64url(payload + sig) [+ "." + base64url(footer)]
EncodePublicToken(payload, sig, footer) ==
    LET token == HeaderPublic \o base64url_encode(payload \o sig)
    IN  IF footer # <<>> THEN token \o TxtDot \o base64url_encode(footer) ELSE token

\* decode: the payload segment and the optional footer segment of a token
TokenSegments(text) == Split(text)
TokenPayload(text) ==
    IF Len(TokenSegments(text)) > 2 THEN base64url_decode(TokenSegments(text)[3]).val
    ELSE <<>>
TokenHasFooter(text) == Len(TokenSegments(text)) > 3
TokenFooter(text) ==
    IF TokenHasFooter(text) THEN base64url_decode(TokenSegments(text)[4]).val ELSE <<>>

(***************************************************************************)
(* The inputs of the model.                                                *)
(***************************************************************************)
Msg == <<72, 101, 108, 108, 111, 32, 119, 111, 114, 108, 100, 33>>  \* "Hello world!"
FooterText == <<102, 111, 111, 116, 101, 114>>                      \* "footer"

Payloads == {SubSeq(Msg, 1, n) : n \in 0..MaxPayloadLen}
Footers == {SubSeq(FooterText, 1, n) : n \in 0..MaxFooterLen}
Fill(n, b) == [i \in 1..n |-> b]
RawKeys == {Fill(KeyLen, b) : b \in 0..MaxKeyByte}

\* the nonce argument of encrypt: absent (empty) or of any length up to 25
NonceArgs == {Fill(n, 9) : n \in 0..(NonceLen + 1)}
\* the values token_bytes(24) may return
RandomSeeds == {Fill(NonceLen, 7), Fill(NonceLen, 9)}

LocalKeys == {V2Local_init(r).val : r \in RawKeys}
SecretKeys == {V2Public_init(Ed25519PrivateKey(r)).val : r \in RawKeys}
PublicKeys == {V2Public_init(public_key(Ed25519PrivateKey(r))).val : r \in RawKeys}
\* public keys whose bytes are those of a local or secret key of the model
PlainPublicKeys == {V2Public_init(Ed25519PublicKey(r)).val : r \in RawKeys}

\* a single bit flipped in one byte
TamperMasks == {1, 128}
NoTamper == [part |-> "none", pos |-> 0, mask |-> 0]
Tampers(payload, footer) ==
    {NoTamper}
    \cup {[part |-> "payload", pos |-> i, mask |-> m] : i \in 1..Len(payload), m \in TamperMasks}
    \cup {[part |-> "footer", pos |-> i, mask |-> m] : i \in 1..Len(footer), m \in TamperMasks}

TamperBytes(bs, part, t) ==
    IF t.part = part THEN [bs EXCEPT ![t.pos] = XorBits(@, t.mask, 8)] ELSE bs

\* strings offered to from_paserk
PaserkVersions == {TxtK2, <<107, 52>>}
PaserkTypes == {TxtLocal, TxtPublic, TxtSecret, <<108, 105, 100>>}
PaserkMaterials ==
    {base64url_encode(r) : r \in RawKeys}
    \cup {base64url_encode(Fill(KeyLen - 1, 1)), <<65>>, <<>>}
PaserkInputs ==
    {<<>>}
    \cup PaserkVersions
    \cup {v \o TxtDot \o t : v \in PaserkVersions, t \in PaserkTypes}
    \cup {v \o TxtDot \o t \o TxtDot \o m :
            v \in PaserkVersions, t \in PaserkTypes, m \in PaserkMaterials}
    \cup {TxtK2 \o TxtDot \o t \o TxtDot \o m \o TxtDot \o m :
            t \in PaserkTypes, m \in {base64url_encode(Fill(KeyLen, 0))}}

(***************************************************************************)
(* State.  oracle: the primitives' table.  tok: the token issued in this   *)
(* run.  last: the last call and its outcome.  ids: the key identifiers    *)
(* computed so far.                                                        *)
(***************************************************************************)
NoSelf == [cls |-> "none", key |-> Bytes(<<>>)]
NoToken == [purpose |-> "none", self |-> NoSelf, payload |-> <<>>, footer |-> <<>>,
            text |-> <<>>]
NoCall == [op |-> "none", self |-> NoSelf, payload |-> <<>>, footer |-> <<>>,
           nonce |-> <<>>, tamper |-> NoTamper, text |-> <<>>, res |-> Ok(<<>>),
           calls |-> 0]

Init ==
    /\ oracle = <<>>
    /\ tok = NoToken
    /\ last = NoCall
    /\ ids = <<>>

\* key.encrypt(payload, footer, nonce=nonce); a run issues one token
Encrypt(self, payload, footer, nonce, rnd) ==
    /\ last.op = "none"
    /\ LET e == V2Local_encrypt(oracle, self, payload, footer, nonce, rnd)
       IN  /\ oracle' = e.o
           /\ last' = [NoCall EXCEPT !.op = "encrypt", !.self = self,
                          !.payload = payload, !.footer = footer, !.nonce = nonce,
                          !.res = e.r, !.calls = Len(e.o) - Len(oracle)]
           /\ tok' = IF e.r.ok
                     THEN [purpose |-> "local", self |-> self, payload |-> payload,
                           footer |-> footer, text |-> e.r.val]
                     ELSE tok
    /\ UNCHANGED ids

\* key.decrypt(payload, footer) on the (possibly altered) segments of the token
\* just issued; decrypt changes nothing, so one call per run shows them all
Decrypt(self, t) ==
    /\ tok.purpose = "local"
    /\ last.op = "encrypt"
    /\ LET payload == TamperBytes(TokenPayload(tok.text), "payload", t)
           footer == TamperBytes(TokenFooter(tok.text), "footer", t)
       IN  last' = [NoCall EXCEPT !.op = "decrypt", !.self = self,
                       !.payload = payload, !.footer = footer, !.tamper = t,
                       !.res = V2Local_decrypt(oracle, self, payload, footer)]
    /\ UNCHANGED <<oracle, tok, ids>>

\* key.sign(payload, footer), and the token encode builds from the signature
Sign(self, payload, footer) ==
    /\ last.op = "none"
    /\ LET e == V2Public_sign(oracle, self, payload, footer)
       IN  /\ oracle' = e.o
           /\ last' = [NoCall EXCEPT !.op = "sign", !.self = self,
                          !.payload = payload, !.footer = footer,
                          !.res = e.r, !.calls = Len(e.o) - Len(oracle)]
           /\ tok' = IF e.r.ok
                     THEN [purpose |-> "public", self |-> self, payload |-> payload,
                           footer |-> footer,
                           text |-> EncodePublicToken(payload, e.r.val, footer)]
                     ELSE tok
    /\ UNCHANGED ids

\* key.verify(payload, footer) on the (possibly altered) segments of the token
\* just issued; verify changes nothing, so one call per run shows them all
Verify(self, t) ==
    /\ tok.purpose = "public"
    /\ last.op = "sign"
    /\ LET payload == TamperBytes(TokenPayload(tok.text), "payload", t)
           footer == TamperBytes(TokenFooter(tok.text), "footer", t)
       IN  last' = [NoCall EXCEPT !.op = "verify", !.self = self,
                       !.payload = payload, !.footer = footer, !.tamper = t,
                       !.res = V2Public_verify(oracle, self, payload, footer)]
    /\ UNCHANGED <<oracle, tok, ids>>

\* V2Local.from_paserk(paserk)
FromPaserkLocal(paserk) ==
    /\ last' = [NoCall EXCEPT !.op = "V2Local.from_paserk", !.text = paserk,
                   !.res = V2Local_from_paserk(paserk)]
    /\ UNCHANGED <<oracle, tok, ids>>

\* V2Public.from_paserk(paserk)
FromPaserkPublic(paserk) ==
    /\ last' = [NoCall EXCEPT !.op = "V2Public.from_paserk", !.text = paserk,
                   !.res = V2Public_from_paserk(paserk)]
    /\ UNCHANGED <<oracle, tok, ids>>

to_paserk(self) ==
    IF self.cls = "V2Local" THEN V2Local_to_paserk(self) ELSE V2Public_to_paserk(self)

from_paserk(cls, paserk) ==
    IF cls = "V2Local" THEN V2Local_from_paserk(paserk) ELSE V2Public_from_paserk(paserk)

to_paserk_id(o, self) ==
    IF self.cls = "V2Local" THEN V2Local_to_paserk_id(o, self)
    ELSE V2Public_to_paserk_id(o, self)

\* type(key).from_paserk(key.to_paserk())
PaserkRoundTrip(self) ==
    /\ last' = [NoCall EXCEPT !.op = "roundtrip", !.self = self,
                   !.text = to_paserk(self),
                   !.res = from_paserk(self.cls, to_paserk(self))]
    /\ UNCHANGED <<oracle, tok, ids>>

\* key.to_paserk_id()
ToPaserkId(self) ==
    /\ Len(ids) < MaxIds
    /\ LET e == to_paserk_id(oracle, self)
       IN  /\ oracle' = e.o
           /\ ids' = Append(ids, [self |-> self, id |-> e.r.val])
           /\ last' = [NoCall EXCEPT !.op = "to_paserk_id", !.self = self,
                          !.res = e.r, !.calls = Len(e.o) - Len(oracle)]
    /\ UNCHANGED tok

AllKeys == LocalKeys \cup SecretKeys \cup PublicKeys \cup PlainPublicKeys

NextTokens ==
    \/ \E self \in LocalKeys, p \in Payloads, f \in Footers, n \in NonceArgs,
          rnd \in RandomSeeds : Encrypt(self, p, f, n, rnd)
    \/ \E self \in LocalKeys, t \in Tampers(TokenPayload(tok.text), TokenFooter(tok.text)) :
          Decrypt(self, t)
    \/ \E self \in SecretKeys \cup PublicKeys, p \in Payloads, f \in Footers :
          Sign(self, p, f)
    \/ \E self \in SecretKeys \cup PublicKeys,
          t \in Tampers(TokenPayload(tok.text), TokenFooter(tok.text)) : Verify(self, t)

NextPaserk ==
    \/ \E s \in PaserkInputs : FromPaserkLocal(s)
    \/ \E s \in PaserkInputs : FromPaserkPublic(s)
    \/ \E self \in AllKeys : PaserkRoundTrip(self)

NextIds == \E self \in AllKeys : ToPaserkId(self)

Next == NextTokens \/ NextPaserk \/ NextIds

\* Spec is every call in any order.  The three families of calls share no
\* state but the primitives' table, and each is also a specification of its own.
Spec == Init /\ [][Next]_vars
SpecTokens == Init /\ [][NextTokens]_vars
SpecPaserk == Init /\ [][NextPaserk]_vars
SpecIds == Init /\ [][NextIds]_vars

(***************************************************************************)
(* Properties.                                                             *)
(***************************************************************************)
\* the public half of a v2.public key
PublicHalf(self) ==
    IF self.key.type = "Ed25519PublicKey" THEN self.key.raw ELSE PublicBytesOf(self.key.raw)

\* the issuing key decodes the unaltered token
TokenAccepted ==
    IF tok.purpose = "local"
    THEN V2Local_decrypt(oracle, tok.self, TokenPayload(tok.text), TokenFooter(tok.text)).ok
    ELSE IF tok.purpose = "public"
    THEN V2Public_verify(oracle, tok.self, TokenPayload(tok.text), TokenFooter(tok.text)).ok
    ELSE FALSE

\* the signature Ed25519 gives for the v2.public message of (payload, footer)
SignatureOf(self, payload, footer) ==
    OracleGet(oracle, "ed25519",
              <<self.key.raw, pae(<<HeaderPublic, payload, footer>>)>>, SigSize)

\* C1: v2.local round trip.  encrypt with an absent or 24-byte nonce seed
\* returns a token whose footer segment is present exactly when the footer is
\* non-empty and decodes to the footer; decrypt with the same key and footer on
\* the decoded payload segment returns the original payload.
C1_LocalRoundTrip ==
    /\ (last.op = "encrypt" /\ Len(last.nonce) \in {0, NonceLen}) =>
          /\ last.res.ok
          /\ tok.text = last.res.val
          /\ TokenHasFooter(tok.text) <=> (last.footer # <<>>)
          /\ TokenFooter(tok.text) = last.footer
    /\ (last.op = "decrypt" /\ last.tamper = NoTamper /\ last.self = tok.self) =>
          /\ last.footer = tok.footer
          /\ last.res.ok
          /\ last.res.val = tok.payload

C1_Witness ==
    /\ last.op = "decrypt" /\ last.tamper = NoTamper /\ last.self = tok.self
    /\ last.res.ok
    /\ Len(tok.payload) = MaxPayloadLen /\ tok.footer # <<>>

\* C2 as stated: verify on payload || signature with the same footer, by the
\* signing key or by its public key, returns the payload, for a payload of any
\* length.
C2_AnyLength ==
    (last.op = "verify" /\ last.tamper = NoTamper
       /\ PublicHalf(last.self) = PublicHalf(tok.self)) =>
          (last.res.ok /\ last.res.val = tok.payload)

\* C2 amended: the same for every non-empty payload.
C2_PublicRoundTrip ==
    (last.op = "verify" /\ last.tamper = NoTamper
       /\ PublicHalf(last.self) = PublicHalf(tok.self) /\ tok.payload # <<>>) =>
          /\ last.payload = tok.payload \o SignatureOf(tok.self, tok.payload, tok.footer)
          /\ last.footer = tok.footer
          /\ last.res.ok
          /\ last.res.val = tok.payload

C2_Witness ==
    /\ last.op = "verify" /\ last.tamper = NoTamper
    /\ last.self.key.type = "Ed25519PublicKey"
    /\ PublicHalf(last.self) = PublicHalf(tok.self)
    /\ tok.payload # <<>> /\ tok.footer # <<>>
    /\ last.res.ok

\* C3: decrypting a token with a local key whose material differs from the
\* issuing key's fails with DecryptError "Failed to decrypt." and returns no
\* payload.
C3_WrongLocalKey ==
    (last.op = "decrypt" /\ last.tamper = NoTamper
       /\ last.self.key.raw # tok.self.key.raw) =>
          /\ ~last.res.ok
          /\ last.res.err = "DecryptError"
          /\ last.res.msg = "Failed to decrypt."

C3_Witness ==
    /\ last.op = "decrypt" /\ last.tamper = NoTamper
    /\ last.self.key.raw # tok.self.key.raw
    /\ ~last.res.ok
    /\ tok.payload # <<>>

\* C4 as stated: verifying a token with a key that does not belong to the
\* signing key pair fails with VerifyError "Failed to verify.".
C4_AlwaysVerifyError ==
    (last.op = "verify" /\ last.tamper = NoTamper
       /\ PublicHalf(last.self) # PublicHalf(tok.self)) =>
          /\ ~last.res.ok
          /\ last.res.err = "VerifyError"
          /\ last.res.msg = "Failed to verify."

\* C4 amended: it fails and returns no payload; with VerifyError "Failed to
\* verify." when the signed payload is non-empty, with ValueError "Invalid
\* payload." when it is empty.
C4_WrongPublicKey ==
    (last.op = "verify" /\ last.tamper = NoTamper
       /\ PublicHalf(last.self) # PublicHalf(tok.self)) =>
          /\ ~last.res.ok
          /\ tok.payload # <<>> =>
                (last.res.err = "VerifyError" /\ last.res.msg = "Failed to verify.")
          /\ tok.payload = <<>> =>
                (last.res.err = "ValueError" /\ last.res.msg = "Invalid payload.")

C4_Witness ==
    /\ last.op = "verify" /\ last.tamper = NoTamper
    /\ last.self.key.type = "Ed25519PublicKey"
    /\ PublicHalf(last.self) # PublicHalf(tok.self)
    /\ tok.payload # <<>>
    /\ last.res.err = "VerifyError"

\* C5: for a valid token (one its issuing key decodes), a single altered byte
\* of the decoded payload bytes or of the footer makes decrypt fail with
\* DecryptError and verify fail with VerifyError, whatever key is used; no
\* payload is returned.
C5_TamperDetected ==
    (last.op \in {"decrypt", "verify"} /\ last.tamper # NoTamper /\ TokenAccepted) =>
          /\ ~last.res.ok
          /\ last.res.err = (IF last.op = "decrypt" THEN "DecryptError" ELSE "VerifyError")

C5_Witness ==
    /\ last.op = "verify" /\ last.tamper.part = "footer" /\ TokenAccepted
    /\ PublicHalf(last.self) = PublicHalf(tok.self)
    /\ last.footer # tok.footer
    /\ ~last.res.ok

\* C6 as stated: encrypt with a nonce seed of any length other than 24, none
\* exempted, fails with ValueError "nonce must be 24 bytes long." before any
\* primitive is invoked, and returns no token.
C6_NoLengthExempted ==
    (last.op = "encrypt" /\ Len(last.nonce) # NonceLen) =>
          /\ ~last.res.ok
          /\ last.res.err = "ValueError"
          /\ last.res.msg = "nonce must be 24 bytes long."
          /\ last.calls = 0
          /\ tok = NoToken

\* C6 amended: the same for every non-empty nonce seed of a length other than
\* 24 (an empty seed is an absent one).
C6_NonceLength ==
    (last.op = "encrypt" /\ Len(last.nonce) \notin {0, NonceLen}) =>
          /\ ~last.res.ok
          /\ last.res.err = "ValueError"
          /\ last.res.msg = "nonce must be 24 bytes long."
          /\ last.calls = 0
          /\ oracle = <<>>
          /\ tok = NoToken

C6_Witness ==
    /\ last.op = "encrypt" /\ Len(last.nonce) = NonceLen - 1
    /\ last.res.err = "ValueError"
    /\ last.payload # <<>>

\* the role prefix of a key's identifier
IdPrefix(self) ==
    IF self.cls = "V2Local" THEN PrefixLid
    ELSE IF self.key.type = "Ed25519PublicKey" THEN PrefixPid ELSE PrefixSid

\* the reconstructed key behaves like the original one
SameBehaviour(k1, k2) ==
    \A p \in Payloads, f \in Footers :
        IF k1.cls = "V2Local"
        THEN LET e1 == V2Local_encrypt(<<>>, k1, p, f, <<>>, Fill(NonceLen, 7))
                 e2 == V2Local_encrypt(<<>>, k2, p, f, <<>>, Fill(NonceLen, 7))
             IN  /\ e1.r = e2.r
                 /\ V2Local_decrypt(e1.o, k2, TokenPayload(e1.r.val), f) = Ok(p)
                 /\ V2Local_decrypt(e2.o, k1, TokenPayload(e2.r.val), f) = Ok(p)
        ELSE LET s1 == V2Public_sign(<<>>, k1, p, f)
                 s2 == V2Public_sign(<<>>, k2, p, f)
             IN  /\ s1.r = s2.r
                 /\ s1.r.ok <=> (k1.key.type = "Ed25519PrivateKey")
                 /\ s1.r.ok =>
                       V2Public_verify(s1.o, k2, p \o s1.r.val, f)
                          = V2Public_verify(s1.o, k1, p \o s1.r.val, f)

\* C7: from_paserk(to_paserk(key)) is a key of the same class, key type
\* (public-only or private) and key material, and behaves like the original.
C7_PaserkRoundTrip ==
    (last.op = "roundtrip") =>
          /\ last.res.ok
          /\ last.res.val.cls = last.self.cls
          /\ last.res.val.key.type = last.self.key.type
          /\ last.res.val.key.raw = last.self.key.raw
          /\ SameBehaviour(last.self, last.res.val)

C7_Witness ==
    /\ last.op = "roundtrip"
    /\ last.self.key.type = "Ed25519PrivateKey"
    /\ last.res.ok
    /\ last.res.val.key.type = "Ed25519PrivateKey"

\* C8: every identifier is prefix + base64url(Hash(prefix + to_paserk(key), 33))
\* with the prefix of the key's role; the same key always gets the same
\* identifier, and keys that differ in material or role get different ones.
C8_PaserkId ==
    /\ \A i \in 1..Len(ids) :
          ids[i].id = IdPrefix(ids[i].self)
                        \o base64url_encode(
                             OracleGet(oracle, "blake2b",
                                       <<IdPrefix(ids[i].self) \o to_paserk(ids[i].self)>>,
                                       IdDigestLen))
    /\ \A i, j \in 1..Len(ids) :
          (ids[i].self = ids[j].self) <=> (ids[i].id = ids[j].id)

C8_Witness ==
    /\ Len(ids) > 2
    /\ ids[1].self.cls = "V2Local"
    /\ ids[2].self.key.type = "Ed25519PublicKey"
    /\ ids[2].self.key.raw = ids[1].self.key.raw
    /\ ids[3].self = ids[1].self
    /\ ids[1].id # ids[2].id
    /\ ids[3].id = ids[1].id

\* the constructor's invariant
KeyInvariant(k) ==
    /\ Len(k.key.raw) = KeyLen
    /\ \/ k.cls = "V2Local" /\ k.key.type = "bytes"
       \/ k.cls = "V2Public" /\ k.key.type \in {"Ed25519PublicKey", "Ed25519PrivateKey"}

\* C9: from_paserk returns a key that satisfies the constructor's invariant or
\* fails with ValueError, never with another kind of error.
C9_FromPaserkValidates ==
    (last.op \in {"V2Local.from_paserk", "V2Public.from_paserk"}) =>
          \/ last.res.ok /\ KeyInvariant(last.res.val)
          \/ ~last.res.ok /\ last.res.err = "ValueError"

\* C10 as stated: sign outputs payload || signature.
C10_OutputsPayloadAndSignature ==
    (last.op = "sign" /\ last.res.ok) =>
          last.res.val = last.payload \o SignatureOf(last.self, last.payload, last.footer)

\* C10 amended: sign returns the 64-byte signature Sign(private_key,
\* pae([header, payload, footer])) alone; the payload followed by it is the
\* byte string of the token, which verify splits back into the payload and the
\* signature.
C10_SignOutput ==
    (last.op = "sign" /\ last.res.ok) =>
          /\ last.res.val = SignatureOf(last.self, last.payload, last.footer)
          /\ Len(last.res.val) = SigSize
          /\ last.calls = 1
          /\ TokenPayload(tok.text) = last.payload \o last.res.val
          /\ Tail_n(TokenPayload(tok.text), SigSize) = last.res.val
          /\ Slice(TokenPayload(tok.text), 0, Len(TokenPayload(tok.text)) - SigSize)
                = last.payload

C10_Witness ==
    /\ last.op = "sign" /\ last.res.ok
    /\ Len(last.payload) = MaxPayloadLen /\ last.footer # <<>>
    /\ Len(last.res.val) = SigSize

====
